---- MODULE Spec2Model ----
(***************************************************************************)
(* Model of excelproc.py: the variety / Latin-species cell segmentation    *)
(* (probabilistic resolver with deterministic fallback) and the row        *)
(* expansion pipeline of process_excel_file.                               *)
(*                                                                         *)
(* Text is a sequence of one-character strings.  A cell value (and a       *)
(* fragment) is a record [t, v]: t = "str" for text with characters v,     *)
(* t = "nan" for a missing cell, t = "num" for a non-text scalar.          *)
(* A Python call's outcome is a record [raised, val].                      *)
(***************************************************************************)
EXTENDS Integers, Sequences, FiniteSets, TLC

\* ------------------------------------------------------------------------
\* Characters and the character classes of Python's re / str methods
\* ------------------------------------------------------------------------
Digit == {"0", "1", "2", "3", "4", "5", "6", "7", "8", "9"}

Upper == {"A", "B", "C", "D", "E", "F", "G", "H", "I", "J", "K", "L", "M",
          "N", "O", "P", "Q", "R", "S", "T", "U", "V", "W", "X", "Y", "Z"}

Lower == {"a", "b", "c", "d", "e", "f", "g", "h", "i", "j", "k", "l", "m",
          "n", "o", "p", "q", "r", "s", "t", "u", "v", "w", "x", "y", "z"}

Whitespace == {" ", "\t", "\n"}

\* \w of the regular expressions (for \b)
WordChar == Digit \cup Upper \cup Lower \cup {"_"}

StrCell(s) == [t |-> "str", v |-> s]

NaN == [t |-> "nan", v |-> <<>>]

NumCell(s) == [t |-> "num", v |-> s]

\* pd.isna(x) or not isinstance(x, str)
is_missing_or_not_str(cell) == cell.t # "str"

Returned(list) == [raised |-> FALSE, val |-> list]

Raised == [raised |-> TRUE, val |-> <<>>]

\* ------------------------------------------------------------------------
\* str.strip / str.rstrip / str.split
\* ------------------------------------------------------------------------
RECURSIVE lstrip(_, _)
lstrip(s, chars) ==
    IF s # <<>> /\ Head(s) \in chars THEN lstrip(Tail(s), chars) ELSE s

RECURSIVE rstrip(_, _)
rstrip(s, chars) ==
    IF s # <<>> /\ s[Len(s)] \in chars
    THEN rstrip(SubSeq(s, 1, Len(s) - 1), chars)
    ELSE s

strip(s) == rstrip(lstrip(s, Whitespace), Whitespace)

Contains(s, c) == \E i \in 1..Len(s) : s[i] = c

\* index of the first occurrence of c in s at or after i, Len(s)+1 if none
RECURSIVE IndexOf(_, _, _)
IndexOf(s, c, i) ==
    IF i > Len(s) THEN Len(s) + 1
    ELSE IF s[i] = c THEN i
    ELSE IndexOf(s, c, i + 1)

\* s.split(c): every piece between occurrences of c
RECURSIVE split_all(_, _)
split_all(s, c) ==
    LET j == IndexOf(s, c, 1) IN
    IF j > Len(s) THEN <<s>>
    ELSE <<SubSeq(s, 1, j - 1)>> \o split_all(SubSeq(s, j + 1, Len(s)), c)

\* s.split(c, 1)[1]: what follows the first occurrence of c
after_first(s, c) == SubSeq(s, IndexOf(s, c, 1) + 1, Len(s))

\* first index >= i whose character is not in chars (Len(s)+1 if none)
RECURSIVE SkipWhile(_, _, _)
SkipWhile(s, i, chars) ==
    IF i <= Len(s) /\ s[i] \in chars THEN SkipWhile(s, i + 1, chars) ELSE i

\* ------------------------------------------------------------------------
\* pattern = r'(\d+\.\s*[^0-9]+?)(?=\s*\d+\.|$)'
\* ------------------------------------------------------------------------
\* \d+\. matches at i
DigitsDotAt(s, i) ==
    /\ i <= Len(s)
    /\ s[i] \in Digit
    /\ LET r == SkipWhile(s, i, Digit) IN r <= Len(s) /\ s[r] = "."

\* the lookahead (?=\s*\d+\.|$) at position e (e = Len(s)+1 is the end)
Lookahead(s, e) ==
    \/ e = Len(s) + 1
    \/ DigitsDotAt(s, SkipWhile(s, e, Whitespace))

\* [^0-9]+? extended one character at a time from e until the lookahead
\* holds; 0 when a digit stops it first
RECURSIVE LazyEnd(_, _)
LazyEnd(s, e) ==
    IF Lookahead(s, e) THEN e
    ELSE IF e <= Len(s) /\ s[e] \notin Digit THEN LazyEnd(s, e + 1)
    ELSE 0

\* exclusive end of the match of the pattern starting at i, 0 if none:
\* \s* first takes every blank (the lazy run starts at q); on failure it
\* gives blanks back, and the only new end that can succeed is q itself
NumberedEnd(s, i) ==
    IF ~DigitsDotAt(s, i) THEN 0
    ELSE LET p == SkipWhile(s, i, Digit) + 1
             q == SkipWhile(s, p, Whitespace)
             a == IF q <= Len(s) /\ s[q] \notin Digit
                  THEN LazyEnd(s, q + 1) ELSE 0
         IN  IF a # 0 THEN a
             ELSE IF q > p /\ Lookahead(s, q) THEN q
             ELSE 0

\* re.findall(pattern, text): non-overlapping matches, left to right
RECURSIVE findall_numbered(_, _)
findall_numbered(s, i) ==
    IF i > Len(s) THEN <<>>
    ELSE LET e == NumberedEnd(s, i) IN
         IF e = 0 THEN findall_numbered(s, i + 1)
         ELSE <<SubSeq(s, i, e - 1)>> \o findall_numbered(s, e)

\* ------------------------------------------------------------------------
\* re.split(r'\.\s+(\d+\.)', text)
\* ------------------------------------------------------------------------
\* start of the captured marker when the separator matches at i, else 0
MarkerAt(s, i) ==
    IF i <= Len(s) /\ s[i] = "."
    THEN LET m == SkipWhile(s, i + 1, Whitespace) IN
         IF m > i + 1 /\ DigitsDotAt(s, m) THEN m ELSE 0
    ELSE 0

\* parts: text, marker, text, marker, ..., text
RECURSIVE re_split(_, _, _)
re_split(s, i, start) ==
    IF i > Len(s) THEN <<SubSeq(s, start, Len(s))>>
    ELSE LET m == MarkerAt(s, i) IN
         IF m = 0 THEN re_split(s, i + 1, start)
         ELSE LET r == SkipWhile(s, m, Digit) IN
              <<SubSeq(s, start, i - 1), SubSeq(s, m, r)>>
                  \o re_split(s, r + 1, r + 1)

\* ------------------------------------------------------------------------
\* parse_varieties_with_regex and its inner extract_numbered_varieties
\* ------------------------------------------------------------------------
\* match.strip().rstrip('.') of every match, the empty ones dropped
RECURSIVE cleaned_varieties(_)
cleaned_varieties(matches) ==
    IF matches = <<>> THEN <<>>
    ELSE LET cleaned == rstrip(strip(Head(matches)), {"."}) IN
         (IF cleaned # <<>> THEN <<cleaned>> ELSE <<>>)
             \o cleaned_varieties(Tail(matches))

\* for i in range(1, len(parts), 2): "<marker> <name>" when the name is
\* not blank
RECURSIVE remaining_varieties(_, _)
remaining_varieties(parts, i) ==
    IF i + 1 > Len(parts) THEN <<>>
    ELSE LET variety_num == parts[i]
             variety_name == strip(parts[i + 1])
         IN  (IF variety_name # <<>>
              THEN <<variety_num \o <<" ">> \o variety_name>>
              ELSE <<>>)
                 \o remaining_varieties(parts, i + 2)

\* the result list, or <<>> where the code returns None (both are falsy
\* for the caller's "if extracted")
extract_numbered_varieties(text) ==
    LET matches == findall_numbered(text, 1) IN
    IF Len(matches) > 1 THEN cleaned_varieties(matches)
    ELSE LET parts == re_split(text, 1, 1) IN
         IF Len(parts) > 1
         THEN LET first_variety == strip(parts[1])
                  varieties ==
                      (IF first_variety # <<>> THEN <<first_variety>> ELSE <<>>)
                          \o remaining_varieties(parts, 2)
              IN  IF Len(varieties) > 1 THEN varieties ELSE <<>>
         ELSE <<>>

RECURSIVE StrCells(_)
StrCells(list) ==
    IF list = <<>> THEN <<>> ELSE <<StrCell(Head(list))>> \o StrCells(Tail(list))

parse_varieties_with_regex(variety_text) ==
    IF is_missing_or_not_str(variety_text) THEN Returned(<<variety_text>>)
    ELSE LET text == strip(variety_text.v)
             after == IF Contains(text, ":")
                      THEN extract_numbered_varieties(strip(after_first(text, ":")))
                      ELSE <<>>
             whole == extract_numbered_varieties(text)
         IN  IF after # <<>> THEN Returned(StrCells(after))
             ELSE IF whole # <<>> THEN Returned(StrCells(whole))
             ELSE Returned(<<StrCell(text)>>)

\* ------------------------------------------------------------------------
\* split_latin_species_fallback
\* ------------------------------------------------------------------------
\* [s.strip() for s in pieces]
RECURSIVE strip_each(_)
strip_each(pieces) ==
    IF pieces = <<>> THEN <<>>
    ELSE <<strip(Head(pieces))>> \o strip_each(Tail(pieces))

\* \b at position i (between s[i-1] and s[i])
WordBoundary(s, i) ==
    LET before == i > 1 /\ i - 1 <= Len(s) /\ s[i - 1] \in WordChar
        here == i >= 1 /\ i <= Len(s) /\ s[i] \in WordChar
    IN  before # here

\* exclusive end of the match of r'\b[A-Z][a-z]+\s+[a-z]+\b' at i, else 0
BinomialEnd(s, i) ==
    IF i <= Len(s) /\ s[i] \in Upper /\ WordBoundary(s, i)
    THEN LET a == SkipWhile(s, i + 1, Lower)
             b == SkipWhile(s, a, Whitespace)
             c == SkipWhile(s, b, Lower)
         IN  IF a > i + 1 /\ b > a /\ c > b /\ WordBoundary(s, c)
             THEN c ELSE 0
    ELSE 0

\* re.findall(species_pattern, species_text)
RECURSIVE findall_species(_, _)
findall_species(s, i) ==
    IF i > Len(s) THEN <<>>
    ELSE LET e == BinomialEnd(s, i) IN
         IF e = 0 THEN findall_species(s, i + 1)
         ELSE <<SubSeq(s, i, e - 1)>> \o findall_species(s, e)

InList(x, list) == \E i \in 1..Len(list) : list[i] = x

\* the matches that are in species_list, in order
RECURSIVE valid_matches(_, _)
valid_matches(matches, species_list) ==
    IF matches = <<>> THEN <<>>
    ELSE (IF InList(StrCell(Head(matches)), species_list)
          THEN <<Head(matches)>> ELSE <<>>)
             \o valid_matches(Tail(matches), species_list)

\* the segmenter without the elif of line 298: matches that are not
\* validated by the reference list are not returned
split_latin_species_fallback_valid_only(species_text, species_list) ==
    IF is_missing_or_not_str(species_text) THEN Returned(<<species_text>>)
    ELSE LET text == strip(species_text.v)
             potential_species == strip_each(split_all(text, ","))
             matches == findall_species(text, 1)
             valid == valid_matches(matches, species_list)
         IN  IF text = <<>> THEN Returned(<<StrCell(text)>>)
             ELSE IF Contains(text, ",") /\ Len(potential_species) > 1
             THEN Returned(StrCells(potential_species))
             ELSE IF Len(matches) > 1 /\ Len(valid) > 1
             THEN Returned(StrCells(valid))
             ELSE Returned(<<StrCell(text)>>)

split_latin_species_fallback(species_text, species_list) ==
    IF is_missing_or_not_str(species_text) THEN Returned(<<species_text>>)
    ELSE LET text == strip(species_text.v)
             potential_species == strip_each(split_all(text, ","))
             matches == findall_species(text, 1)
             valid == valid_matches(matches, species_list)
         IN  IF text = <<>> THEN Returned(<<StrCell(text)>>)
             ELSE IF Contains(text, ",") /\ Len(potential_species) > 1
             THEN Returned(StrCells(potential_species))
             ELSE IF Len(matches) > 1
             THEN (IF Len(valid) > 1 THEN Returned(StrCells(valid))
                   ELSE Returned(StrCells(matches)))
             ELSE Returned(<<StrCell(text)>>)

\* ------------------------------------------------------------------------
\* The external service's reply and json.loads
\*
\* A reply is [kind, toks]: kind = "raise" when client.chat.completions
\* .create raises (network failure, timeout), "none" when the message
\* content is None (.strip() raises AttributeError), "text" when it is
\* the text toks.  The text is a sequence of JSON tokens [k, v]: "lb" [,
\* "rb" ], "comma", "str" (a string literal with characters v), "num" (a
\* number literal) and "junk" (anything that is not JSON).  Literals hold
\* no bracket, and arrays are not nested.
\* ------------------------------------------------------------------------
Tok(k, v) == [k |-> k, v |-> v]

LB == Tok("lb", <<>>)

RB == Tok("rb", <<>>)

COMMA == Tok("comma", <<>>)

Junk == Tok("junk", <<>>)

StrLit(s) == Tok("str", s)

NumLit(s) == Tok("num", s)

RaiseReply == [kind |-> "raise", toks |-> <<>>]

NoneReply == [kind |-> "none", toks |-> <<>>]

TextReply(toks) == [kind |-> "text", toks |-> toks]

JSONDecodeError == [ok |-> FALSE, list |-> FALSE, items |-> <<>>]

Decoded(list, items) == [ok |-> TRUE, list |-> list, items |-> items]

ValueOf(tok) == IF tok.k = "str" THEN StrCell(tok.v) ELSE NumCell(tok.v)

\* value (, value)*
ElementsOk(inner) ==
    /\ Len(inner) % 2 = 1
    /\ \A i \in 1..Len(inner) :
          IF i % 2 = 1 THEN inner[i].k \in {"str", "num"}
          ELSE inner[i].k = "comma"

\* json.loads(text): the decoded value, or JSONDecodeError
json_loads(toks) ==
    IF Len(toks) = 1 /\ toks[1].k \in {"str", "num"}
    THEN Decoded(FALSE, <<>>)
    ELSE IF Len(toks) >= 2 /\ toks[1].k = "lb" /\ toks[Len(toks)].k = "rb"
    THEN LET inner == SubSeq(toks, 2, Len(toks) - 1) IN
         IF inner = <<>> THEN Decoded(TRUE, <<>>)
         ELSE IF ElementsOk(inner)
         THEN Decoded(TRUE, [i \in 1..((Len(inner) + 1) \div 2) |->
                                 ValueOf(inner[2 * i - 1])])
         ELSE JSONDecodeError
    ELSE JSONDecodeError

\* index of the first token of kind k at or after i, Len(toks)+1 if none
RECURSIVE TokIndex(_, _, _)
TokIndex(toks, k, i) ==
    IF i > Len(toks) THEN Len(toks) + 1
    ELSE IF toks[i].k = k THEN i
    ELSE TokIndex(toks, k, i + 1)

\* re.search(r'\[(.*?)\]', result_text, re.DOTALL): group(1), from the
\* first [ to the first ] after it
bracket_search(toks) ==
    LET a == TokIndex(toks, "lb", 1)
        b == TokIndex(toks, "rb", a + 1)
    IN  IF a <= Len(toks) /\ b <= Len(toks)
        THEN [found |-> TRUE, group |-> SubSeq(toks, a + 1, b - 1)]
        ELSE [found |-> FALSE, group |-> <<>>]

\* ------------------------------------------------------------------------
\* The probabilistic resolvers.  Their outcome is [raised, val, service]:
\* service counts the calls made to the external service.
\* ------------------------------------------------------------------------
ResolverReturned(list, n) == [raised |-> FALSE, val |-> list, service |-> n]

ResolverRaised(n) == [raised |-> TRUE, val |-> <<>>, service |-> n]

\* isinstance(x, list) and len(x) > 0
accepts_decoded(d) == d.ok /\ d.list /\ Len(d.items) > 0

\* the try block around the service call and the decoding of its reply,
\* then the final "return [text]"
resolve_reply(text, reply) ==
    IF reply.kind # "text" THEN ResolverReturned(<<StrCell(text)>>, 1)
    ELSE LET first == json_loads(reply.toks)
             json_match == bracket_search(reply.toks)
             second == json_loads(<<LB>> \o json_match.group \o <<RB>>)
         IN  IF first.ok
             THEN (IF accepts_decoded(first)
                   THEN ResolverReturned(first.items, 1)
                   ELSE ResolverReturned(<<StrCell(text)>>, 1))
             ELSE IF json_match.found /\ accepts_decoded(second)
             THEN ResolverReturned(second.items, 1)
             ELSE ResolverReturned(<<StrCell(text)>>, 1)

parse_varieties_with_openai(variety_text, reply) ==
    IF is_missing_or_not_str(variety_text)
    THEN ResolverReturned(<<variety_text>>, 0)
    ELSE LET text == strip(variety_text.v) IN
         IF text = <<>> THEN ResolverReturned(<<StrCell(text)>>, 0)
         ELSE resolve_reply(text, reply)

SampleSize == 20

\* species_list[:20] if len(species_list) >= 20 else species_list
species_sample(species_list) ==
    IF Len(species_list) >= SampleSize
    THEN SubSeq(species_list, 1, SampleSize)
    ELSE species_list

\* ', '.join(species_sample) raises TypeError on an item that is not a str
join_raises(sample) == \E i \in 1..Len(sample) : sample[i].t # "str"

split_latin_species_with_ai(species_text, species_list, reply) ==
    IF is_missing_or_not_str(species_text)
    THEN ResolverReturned(<<species_text>>, 0)
    ELSE LET text == strip(species_text.v) IN
         IF text = <<>> THEN ResolverReturned(<<StrCell(text)>>, 0)
         ELSE IF join_raises(species_sample(species_list))
         THEN ResolverRaised(0)
         ELSE resolve_reply(text, reply)

\* ------------------------------------------------------------------------
\* The orchestrators.  Their outcome is [raised, val, calls]: calls lists,
\* in order, what the invocation called ("resolver", then "service" for
\* each call the resolver made to the external service, "segmenter").
\* ------------------------------------------------------------------------
Outcome(raised, list, calls) ==
    [raised |-> raised, val |-> list, calls |-> calls]

ResolverCalls(ai) ==
    <<"resolver">> \o [i \in 1..ai.service |-> "service"]

\* accepts_result without the comparison with the unchanged input
accepts_result_echo(ai, text) ==
    /\ ~ai.raised
    /\ Len(ai.val) > 0

\* result and len(result) > 0 and result != [text], inside try/except
accepts_result(ai, text) ==
    /\ ~ai.raised
    /\ Len(ai.val) > 0
    /\ ai.val # <<StrCell(text)>>

\* orchestrate without the try/except around the resolver
orchestrate_no_except(text, openai_client, ai, fallback) ==
    IF openai_client /\ ai.raised
    THEN Outcome(TRUE, <<>>, ResolverCalls(ai))
    ELSE IF openai_client /\ accepts_result(ai, text)
    THEN Outcome(FALSE, ai.val, ResolverCalls(ai))
    ELSE Outcome(fallback.raised, fallback.val,
                 (IF openai_client THEN ResolverCalls(ai) ELSE <<>>)
                     \o <<"segmenter">>)

\* orchestrate with a second attempt of the resolver after a failed or
\* rejected first one
orchestrate_retry(text, openai_client, ai, fallback) ==
    IF openai_client /\ accepts_result(ai, text)
    THEN Outcome(FALSE, ai.val, ResolverCalls(ai))
    ELSE Outcome(fallback.raised, fallback.val,
                 (IF openai_client
                  THEN ResolverCalls(ai) \o ResolverCalls(ai)
                  ELSE <<>>)
                     \o <<"segmenter">>)

\* if openai_client: try the resolver; then the deterministic segmenter
orchestrate(text, openai_client, ai, fallback) ==
    IF openai_client /\ accepts_result(ai, text)
    THEN Outcome(FALSE, ai.val, ResolverCalls(ai))
    ELSE Outcome(fallback.raised, fallback.val,
                 (IF openai_client THEN ResolverCalls(ai) ELSE <<>>)
                     \o <<"segmenter">>)

\* parse_varieties without the return on blank text
parse_varieties_no_blank(variety_text, openai_client, reply) ==
    IF is_missing_or_not_str(variety_text)
    THEN Outcome(FALSE, <<variety_text>>, <<>>)
    ELSE LET text == strip(variety_text.v) IN
         orchestrate(text, openai_client,
                     parse_varieties_with_openai(StrCell(text), reply),
                     parse_varieties_with_regex(StrCell(text)))

parse_varieties(variety_text, openai_client, reply) ==
    IF is_missing_or_not_str(variety_text)
    THEN Outcome(FALSE, <<variety_text>>, <<>>)
    ELSE LET text == strip(variety_text.v) IN
         IF text = <<>> THEN Outcome(FALSE, <<StrCell(text)>>, <<>>)
         ELSE orchestrate(text, openai_client,
                          parse_varieties_with_openai(StrCell(text), reply),
                          parse_varieties_with_regex(StrCell(text)))

split_latin_species(species_text, species_list, openai_client, reply) ==
    IF is_missing_or_not_str(species_text)
    THEN Outcome(FALSE, <<species_text>>, <<>>)
    ELSE LET text == strip(species_text.v) IN
         IF text = <<>> THEN Outcome(FALSE, <<StrCell(text)>>, <<>>)
         ELSE orchestrate(text, openai_client,
                          split_latin_species_with_ai(StrCell(text),
                                                      species_list, reply),
                          split_latin_species_fallback(StrCell(text),
                                                       species_list))

\* ------------------------------------------------------------------------
\* Inputs: cell texts, reference lists and replies of the service
\* ------------------------------------------------------------------------
T_JIW ==
    <<"3", ".", " ", "J", "I", "W", ".", "1">>

T_Wheat ==
    <<"w", "h", "e", "a", "t", "(", "T", ".", "A", ")", " ", ":",
      " ", "1", ".", " ", "S", "A", "N", "E", "E", "N", ".", " ",
      "2", ".", " ", "W", "Q", " ", "1", "1", "0">>

T_Dolidos ==
    <<"D", "o", "l", "i", "d", "o", "s", " ", "l", "a", "b", "l",
      "a", "b", " ", "B", "r", "a", "c", "h", "i", "a", "r", "i",
      "a", " ", "n", "u", "z", "z", "i", "z", "e", "n", "s", "i",
      "s", ".", " ", "1", ".", " ", "L", "a", "n", "e", "t", " ",
      "c", "o", "c", "o", "t", "y", "p", "e", " ", "2", ".", " ",
      "B", "i", "s", "i", "a", " ", "e", "c", "o", "h", "y", "p",
      "e", " ", "3", ".", " ", "K", "i", "s", "i", "a", " ", "e",
      "c", "o", "l", "i", "p", "e">>

T_Hordeum ==
    <<"H", "o", "r", "d", "e", "u", "m", " ", "v", "u", "l", "g",
      "a", "r", "e", ",", " ", "R", "h", "a", "n", "t", "e", "r",
      "i", "u", "m", " ", "e", "p", "a", "p", "p", "o", "s", "u", "m">>

T_Pisum ==
    <<"P", "i", "s", "u", "m", " ", "s", "a", "t", "i", "v", "u", "m">>

T_Phaseolus ==
    <<"P", "h", "a", "s", "e", "o", "l", "u", "s", " ", "v", "u",
      "l", "g", "a", "r", "i", "s">>

T_PisumPhaseolus ==
    <<"P", "i", "s", "u", "m", " ", "s", "a", "t", "i", "v", "u",
      "m", " ", "P", "h", "a", "s", "e", "o", "l", "u", "s", " ",
      "v", "u", "l", "g", "a", "r", "i", "s">>

T_Padded ==
    <<" ", "P", "i", "s", "u", "m", " ", "s", "a", "t", "i", "v",
      "u", "m", " ">>

T_TrailingComma ==
    <<"P", "i", "s", "u", "m", " ", "s", "a", "t", "i", "v", "u",
      "m", ",">>

T_Blank ==
    <<" ", " ">>

T_Saneen ==
    <<"1", ".", " ", "S", "A", "N", "E", "E", "N">>

T_WQ ==
    <<"2", ".", " ", "W", "Q", " ", "1", "1", "0">>

T_Lanet ==
    <<"1", ".", " ", "L", "a", "n", "e", "t", " ", "c", "o", "c",
      "o", "t", "y", "p", "e">>

\* numbered items before a colon and no numbered item after it
T_NumberedBeforeColon ==
    <<"1", ".", " ", "a", " ", "2", ".", " ", "b", ":", " ", "x">>

T_Zea ==
    <<"Z", "e", "a", " ", "m", "a", "y", "s">>

\* three binomials separated by spaces, no comma
T_PisumZeaPhaseolus ==
    T_Pisum \o <<" ">> \o T_Zea \o <<" ">> \o T_Phaseolus

SampleTexts ==
    {T_JIW, T_Wheat, T_Dolidos, T_Hordeum, T_Pisum, T_PisumPhaseolus,
     T_Padded, T_TrailingComma, T_Blank, T_NumberedBeforeColon,
     T_PisumZeaPhaseolus}

\* the characters of the exhaustively enumerated short texts
SmallAlphabet == {"1", ".", " ", ":", ",", "A", "b"}

MaxTextLen == 2

ShortTexts == UNION {[1..n -> SmallAlphabet] : n \in 0..MaxTextLen}

\* missing, non-text, blank and text cells
CellInputs ==
    {NaN, NumCell(<<"7">>)}
        \cup {StrCell(s) : s \in SampleTexts \cup ShortTexts}

\* a reference list longer than the sample of the prompt, whose only
\* item that is not text lies beyond the sample
LongList ==
    [i \in 1..(SampleSize + 1) |->
        IF i <= SampleSize THEN StrCell(T_Pisum) ELSE NaN]

\* species_df['Latin Name species'].tolist(): a blank cell of the
\* reference file is NaN
RefLists ==
    {<<>>,
     <<StrCell(T_Pisum), StrCell(T_Phaseolus)>>,
     <<NaN, StrCell(T_Pisum)>>,
     LongList}

\* what the service can do with a request about text
Replies(text) ==
    {RaiseReply,
     NoneReply,
     TextReply(<<LB, StrLit(T_Saneen), COMMA, StrLit(T_WQ), RB>>),
     TextReply(<<LB, StrLit(T_Pisum), COMMA, StrLit(T_Phaseolus), COMMA,
                 StrLit(T_Lanet), RB>>),
     TextReply(<<LB, StrLit(text), RB>>),
     TextReply(<<LB, StrLit(T_Lanet), RB>>),
     TextReply(<<LB, RB>>),
     TextReply(<<StrLit(T_Saneen)>>),
     TextReply(<<LB, NumLit(<<"1">>), COMMA, NumLit(<<"2">>), RB>>),
     TextReply(<<Junk>>),
     TextReply(<<Junk, LB, StrLit(T_Saneen), COMMA, StrLit(T_WQ), RB, Junk>>),
     TextReply(<<Junk, LB, Junk, RB>>),
     TextReply(<<Junk, LB, RB>>),
     TextReply(<<LB, StrLit(T_Saneen), COMMA, StrLit(T_WQ)>>)}

\* ------------------------------------------------------------------------
\* State
\* ------------------------------------------------------------------------
VARIABLES
    call,                  \* the single call made under OrchSpec
    pc,                    \* position in main / process_excel_file
    species_list,          \* reference names read from species_file
    openai_client,         \* TRUE when a client was built, FALSE for None
    df,                    \* the rows of the input file
    columns,               \* df.columns
    index,                 \* number of rows df.iterrows() has yielded
    row,                   \* the Series object of the current row (in heap)
    heap,                  \* the Series objects, by identity
    species_list_for_row,  \* result of split_latin_species for the row
    species_i,             \* position of the "for species in ..." loop
    processed_rows,        \* the list of emitted Series, with their origin
    output,                \* what output_file holds
    success,               \* return value of process_excel_file
    failure,               \* why the run failed, "" if it has not
    exit_status            \* argument of sys.exit, -1 before the exit

pvars ==
    <<pc, species_list, openai_client, df, columns, index, row, heap,
      species_list_for_row, species_i, processed_rows, output, success,
      failure, exit_status>>

vars == <<call, pvars>>

latin_species_column == "Latin Name species"

variety_column == "Variety Name species"

\* a column the program does not look at
other_column == "Accession"

NoOutput == [written |-> FALSE, rows |-> <<>>]

Written(rows) == [written |-> TRUE, rows |-> rows]

NoCall ==
    [fn |-> "none", arg |-> NaN, species_list |-> <<>>, client |-> FALSE,
     reply |-> RaiseReply, raised |-> FALSE, val |-> <<>>, calls |-> <<>>]

PipelineInit ==
    /\ pc = "start"
    /\ species_list = <<>>
    /\ openai_client = FALSE
    /\ df = <<>>
    /\ columns = {}
    /\ index = 0
    /\ row = 0
    /\ heap = <<>>
    /\ species_list_for_row = <<>>
    /\ species_i = 0
    /\ processed_rows = <<>>
    /\ output = NoOutput
    /\ success = FALSE
    /\ failure = ""
    /\ exit_status = -1

\* ------------------------------------------------------------------------
\* Row expansion (the body of "for index, row in df.iterrows()")
\*
\* heap holds the Series objects: processed_rows.append(row) appends a
\* reference, row.copy() makes a new object.  An entry of processed_rows
\* is the reference obj together with its origin: the source row src,
\* the position si of its species fragment sfrag among the sn fragments
\* of the species resolution, and the position vi of its variety fragment
\* vfrag among the vn fragments of the variety resolution of that
\* iteration (1, 1 and NaN for a column that was not resolved).
\* ------------------------------------------------------------------------
\* row.copy() that returns the same object
row_copy_alias(h, id) == [heap |-> h, id |-> id]

\* row.copy(): a new object with the same cells
row_copy(h, id) == [heap |-> Append(h, h[id]), id |-> Len(h) + 1]

\* new_row[column] = value
setitem(h, id, column, value) ==
    [h EXCEPT ![id] = [@ EXCEPT ![column] = value]]

\* insertion at the head of the list
list_prepend(list, x) == <<x>> \o list

\* processed_rows.append(x)
list_append(list, x) == Append(list, x)

Origin(id, src, si, sn, sfrag, vi, vn, vfrag) ==
    [obj |-> id, src |-> src, si |-> si, sn |-> sn, sfrag |-> sfrag,
     vi |-> vi, vn |-> vn, vfrag |-> vfrag]

\* for variety in varieties: new_row = row.copy(); (new_row[species
\* column] = species;) new_row[variety column] = variety; append(new_row)
RECURSIVE emit_varieties(_, _, _, _, _, _, _, _, _)
emit_varieties(st, id, src, set_species, si, sn, sfrag, varieties, vi) ==
    IF vi > Len(varieties) THEN st
    ELSE LET c == row_copy(st.heap, id)
             h1 == IF set_species
                   THEN setitem(c.heap, c.id, latin_species_column, sfrag)
                   ELSE c.heap
             h2 == setitem(h1, c.id, variety_column, varieties[vi])
             o == Origin(c.id, src, si, sn, sfrag, vi, Len(varieties),
                         varieties[vi])
         IN  emit_varieties([heap |-> h2, rows |-> list_append(st.rows, o)],
                            id, src, set_species, si, sn, sfrag, varieties,
                            vi + 1)

\* the single-species branch that writes the one fragment into the row
expand_single_overwrite(st, id, src, sfrag, has_variety, varieties) ==
    LET h1 == setitem(st.heap, id, latin_species_column, sfrag) IN
    IF has_variety /\ Len(varieties) # 1
    THEN emit_varieties([heap |-> h1, rows |-> st.rows], id, src, FALSE,
                        1, 1, sfrag, varieties, 1)
    ELSE [heap |-> h1,
          rows |-> list_append(st.rows,
                      Origin(id, src, 1, 1, sfrag, 1, 1,
                             IF has_variety THEN varieties[1] ELSE NaN))]

\* len(species_list_for_row) == 1: the row itself, or one copy per variety
expand_single(st, id, src, sfrag, has_variety, varieties) ==
    IF has_variety /\ Len(varieties) # 1
    THEN emit_varieties(st, id, src, FALSE, 1, 1, sfrag, varieties, 1)
    ELSE [heap |-> st.heap,
          rows |-> list_append(st.rows,
                      Origin(id, src, 1, 1, sfrag, 1, 1,
                             IF has_variety THEN varieties[1] ELSE NaN))]

\* one iteration of "for species in species_list_for_row"
expand_species(st, id, src, si, sn, sfrag, has_variety, varieties) ==
    IF has_variety /\ Len(varieties) # 1
    THEN emit_varieties(st, id, src, TRUE, si, sn, sfrag, varieties, 1)
    ELSE LET c == row_copy(st.heap, id)
             h1 == setitem(c.heap, c.id, latin_species_column, sfrag)
         IN  [heap |-> h1,
              rows |-> list_append(st.rows,
                          Origin(c.id, src, si, sn, sfrag, 1, 1,
                                 IF has_variety THEN varieties[1] ELSE NaN))]

\* the species column is absent: the row itself, or one copy per variety
expand_variety_only(st, id, src, varieties) ==
    IF Len(varieties) # 1
    THEN emit_varieties(st, id, src, FALSE, 1, 1, NaN, varieties, 1)
    ELSE [heap |-> st.heap,
          rows |-> list_append(st.rows,
                      Origin(id, src, 1, 1, NaN, 1, 1, varieties[1]))]

\* ------------------------------------------------------------------------
\* Inputs of a run
\* ------------------------------------------------------------------------
MaxRows == 2

\* (species cell, variety cell) of an input row
RowSamples ==
    {[ls |-> StrCell(T_PisumPhaseolus), vn |-> StrCell(T_Dolidos)],
     [ls |-> StrCell(T_Padded), vn |-> StrCell(T_Wheat)],
     [ls |-> NaN, vn |-> NaN]}

Schemas ==
    {{latin_species_column, variety_column, other_column},
     {latin_species_column, other_column},
     {variety_column, other_column},
     {other_column}}

\* the other column numbers the rows
AccessionOf(i) == NumCell(<<<<"1", "2", "3", "4", "5", "6", "7", "8", "9">>[i]>>)

MakeRow(cols, i, sample) ==
    [c \in cols |->
        IF c = latin_species_column THEN sample.ls
        ELSE IF c = variety_column THEN sample.vn
        ELSE AccessionOf(i)]

PipelineReplies ==
    {RaiseReply,
     TextReply(<<LB, StrLit(T_Lanet), RB>>),
     TextReply(<<LB, StrLit(T_Saneen), COMMA, StrLit(T_WQ), RB>>)}

\* ------------------------------------------------------------------------
\* main and process_excel_file
\* ------------------------------------------------------------------------
\* an exit status that ignores the result
exit_code_zero(ok) == 0

\* sys.exit(0 if success else 1)
exit_code(ok) == IF ok THEN 0 ELSE 1

\* return False, from the body or from an except clause
Fail(why) ==
    /\ failure' = why
    /\ success' = FALSE
    /\ pc' = "return"

\* species_df = pd.read_excel(species_file); a failure leaves []
LoadSpecies ==
    /\ pc = "start"
    /\ \E loaded \in BOOLEAN :
          species_list' = IF loaded
                          THEN <<StrCell(T_Pisum), StrCell(T_Phaseolus)>>
                          ELSE <<>>
    /\ pc' = "client"
    /\ UNCHANGED <<call, openai_client, df, columns, index, row, heap,
                   species_list_for_row, species_i, processed_rows, output,
                   success, failure, exit_status>>

\* OpenAI(api_key=...) when OPENAI_API_KEY is set and the client builds
InitClient ==
    /\ pc = "client"
    /\ \E api_key \in BOOLEAN, built \in BOOLEAN :
          openai_client' = (api_key /\ built)
    /\ pc' = "read"
    /\ UNCHANGED <<call, species_list, df, columns, index, row, heap,
                   species_list_for_row, species_i, processed_rows, output,
                   success, failure, exit_status>>

\* df = pd.read_excel(input_file)
ReadInput ==
    /\ pc = "read"
    /\ \E cols \in Schemas, n \in 0..MaxRows :
       \E samples \in [1..n -> RowSamples] :
          /\ df' = [i \in 1..n |-> MakeRow(cols, i, samples[i])]
          /\ columns' = cols
    /\ pc' = "columns"
    /\ UNCHANGED <<call, species_list, openai_client, index, row, heap,
                   species_list_for_row, species_i, processed_rows, output,
                   success, failure, exit_status>>

\* pd.read_excel raises: FileNotFoundError, or anything else
ReadInputFails ==
    /\ pc = "read"
    /\ \E why \in {"missing", "error"} : Fail(why)
    /\ UNCHANGED <<call, species_list, openai_client, df, columns, index,
                   row, heap, species_list_for_row, species_i,
                   processed_rows, output, exit_status>>

\* if not columns_to_process: return False
CheckColumns ==
    /\ pc = "columns"
    /\ IF columns \cap {latin_species_column, variety_column} = {}
       THEN Fail("nocolumns")
       ELSE pc' = "loop" /\ UNCHANGED <<success, failure>>
    /\ UNCHANGED <<call, species_list, openai_client, df, columns, index,
                   row, heap, species_list_for_row, species_i,
                   processed_rows, output, exit_status>>

\* for index, row in df.iterrows(): the next row as a new Series, or the
\* end of the loop
IterRows ==
    /\ pc = "loop"
    /\ IF index < Len(df)
       THEN /\ index' = index + 1
            /\ heap' = Append(heap, df[index + 1])
            /\ row' = Len(heap) + 1
            /\ pc' = IF latin_species_column \in columns
                     THEN "species" ELSE "variety_only"
       ELSE /\ pc' = "write"
            /\ UNCHANGED <<index, heap, row>>
    /\ UNCHANGED <<call, species_list, openai_client, df, columns,
                   species_list_for_row, species_i, processed_rows, output,
                   success, failure, exit_status>>

\* species_list_for_row = split_latin_species(species_text, ...)
SplitSpecies ==
    /\ pc = "species"
    /\ \E reply \in PipelineReplies :
          LET out == split_latin_species(heap[row][latin_species_column],
                                         species_list, openai_client, reply)
          IN  IF out.raised
              THEN Fail("row")
                   /\ UNCHANGED <<species_list_for_row, species_i>>
              ELSE /\ species_list_for_row' = out.val
                   /\ species_i' = 1
                   /\ pc' = IF Len(out.val) = 0 THEN "loop" ELSE "expand"
                   /\ UNCHANGED <<success, failure>>
    /\ UNCHANGED <<call, species_list, openai_client, df, columns, index,
                   row, heap, processed_rows, output, exit_status>>

\* varieties = parse_varieties(variety_text, openai_client), when the
\* variety column exists
VarietiesOf(reply) ==
    IF variety_column \in columns
    THEN parse_varieties(heap[row][variety_column], openai_client, reply)
    ELSE Outcome(FALSE, <<>>, <<>>)

\* the replies that matter to the variety resolution of the current row
VarietyReplies ==
    IF variety_column \in columns THEN PipelineReplies ELSE {RaiseReply}

\* if len(species_list_for_row) == 1: ...
ExpandSingle ==
    /\ pc = "expand"
    /\ Len(species_list_for_row) = 1
    /\ \E reply \in VarietyReplies :
          LET out == VarietiesOf(reply)
              st == expand_single([heap |-> heap, rows |-> processed_rows],
                                  row, index, species_list_for_row[1],
                                  variety_column \in columns, out.val)
          IN  IF out.raised
              THEN Fail("row") /\ UNCHANGED <<heap, processed_rows>>
              ELSE /\ heap' = st.heap
                   /\ processed_rows' = st.rows
                   /\ pc' = "loop"
                   /\ UNCHANGED <<success, failure>>
    /\ UNCHANGED <<call, species_list, openai_client, df, columns, index,
                   row, species_list_for_row, species_i, output,
                   exit_status>>

\* else: for species in species_list_for_row: ... (one iteration)
ExpandSpecies ==
    /\ pc = "expand"
    /\ Len(species_list_for_row) > 1
    /\ \E reply \in VarietyReplies :
          LET out == VarietiesOf(reply)
              st == expand_species([heap |-> heap, rows |-> processed_rows],
                                   row, index, species_i,
                                   Len(species_list_for_row),
                                   species_list_for_row[species_i],
                                   variety_column \in columns, out.val)
          IN  IF out.raised
              THEN Fail("row")
                   /\ UNCHANGED <<heap, processed_rows, species_i>>
              ELSE /\ heap' = st.heap
                   /\ processed_rows' = st.rows
                   /\ species_i' = species_i + 1
                   /\ pc' = IF species_i = Len(species_list_for_row)
                            THEN "loop" ELSE "expand"
                   /\ UNCHANGED <<success, failure>>
    /\ UNCHANGED <<call, species_list, openai_client, df, columns, index,
                   row, species_list_for_row, output, exit_status>>

\* else: only the variety column exists
VarietyOnly ==
    /\ pc = "variety_only"
    /\ \E reply \in PipelineReplies :
          LET out == VarietiesOf(reply)
              st == expand_variety_only(
                        [heap |-> heap, rows |-> processed_rows],
                        row, index, out.val)
          IN  IF out.raised
              THEN Fail("row") /\ UNCHANGED <<heap, processed_rows>>
              ELSE /\ heap' = st.heap
                   /\ processed_rows' = st.rows
                   /\ pc' = "loop"
                   /\ UNCHANGED <<success, failure>>
    /\ UNCHANGED <<call, species_list, openai_client, df, columns, index,
                   row, species_list_for_row, species_i, output,
                   exit_status>>

\* an exception nobody expected while a row is processed: except Exception
RowFault ==
    /\ pc \in {"species", "expand", "variety_only"}
    /\ Fail("row")
    /\ UNCHANGED <<call, species_list, openai_client, df, columns, index,
                   row, heap, species_list_for_row, species_i,
                   processed_rows, output, exit_status>>

\* processed_df = pd.DataFrame(processed_rows); processed_df.to_excel(...)
WriteOutput ==
    /\ pc = "write"
    /\ output' = Written([j \in 1..Len(processed_rows) |->
                             heap[processed_rows[j].obj]])
    /\ success' = TRUE
    /\ pc' = "return"
    /\ UNCHANGED <<call, species_list, openai_client, df, columns, index,
                   row, heap, species_list_for_row, species_i,
                   processed_rows, failure, exit_status>>

\* to_excel raises: what the file then holds is up to the library
WriteFault ==
    /\ pc = "write"
    /\ \E left \in BOOLEAN :
          output' = IF left
                    THEN Written([j \in 1..Len(processed_rows) |->
                                     heap[processed_rows[j].obj]])
                    ELSE NoOutput
    /\ Fail("write")
    /\ UNCHANGED <<call, species_list, openai_client, df, columns, index,
                   row, heap, species_list_for_row, species_i,
                   processed_rows, exit_status>>

\* sys.exit(0 if success else 1)
Exit ==
    /\ pc = "return"
    /\ exit_status' = exit_code(success)
    /\ pc' = "exited"
    /\ UNCHANGED <<call, species_list, openai_client, df, columns, index,
                   row, heap, species_list_for_row, species_i,
                   processed_rows, output, success, failure>>

Init == call = NoCall /\ PipelineInit

Next ==
    \/ LoadSpecies
    \/ InitClient
    \/ ReadInput
    \/ ReadInputFails
    \/ CheckColumns
    \/ IterRows
    \/ SplitSpecies
    \/ ExpandSingle
    \/ ExpandSpecies
    \/ VarietyOnly
    \/ RowFault
    \/ WriteOutput
    \/ WriteFault
    \/ Exit

Spec == Init /\ [][Next]_vars

\* ------------------------------------------------------------------------
\* Single calls of the orchestrators and of the resolvers: one call per
\* behaviour, on any input, recorded in call
\* ------------------------------------------------------------------------

Called(fn, arg, ref, client, reply, out, calls) ==
    [fn |-> fn, arg |-> arg, species_list |-> ref,
     client |-> client, reply |-> reply, raised |-> out.raised,
     val |-> out.val, calls |-> calls]

\* the text a reply is about: the normalized cell text
TextOf(cell) == IF cell.t = "str" THEN strip(cell.v) ELSE <<>>

CallParseVarieties ==
    /\ call = NoCall
    /\ UNCHANGED pvars
    /\ \E arg \in CellInputs, client \in BOOLEAN :
       \E reply \in Replies(TextOf(arg)) :
        LET out == parse_varieties(arg, client, reply) IN
        call' = Called("parse_varieties", arg, <<>>, client, reply, out,
                       out.calls)

CallSplitLatinSpecies ==
    /\ call = NoCall
    /\ UNCHANGED pvars
    /\ \E arg \in CellInputs, ref \in RefLists, client \in BOOLEAN :
       \E reply \in Replies(TextOf(arg)) :
        LET out == split_latin_species(arg, ref, client, reply) IN
        call' = Called("split_latin_species", arg, ref, client,
                       reply, out, out.calls)

CallParseVarietiesWithOpenai ==
    /\ call = NoCall
    /\ UNCHANGED pvars
    /\ \E arg \in CellInputs :
       \E reply \in Replies(TextOf(arg)) :
        LET out == parse_varieties_with_openai(arg, reply) IN
        call' = Called("parse_varieties_with_openai", arg, <<>>, TRUE,
                       reply, out, ResolverCalls(out))

CallSplitLatinSpeciesWithAi ==
    /\ call = NoCall
    /\ UNCHANGED pvars
    /\ \E arg \in CellInputs, ref \in RefLists :
       \E reply \in Replies(TextOf(arg)) :
        LET out == split_latin_species_with_ai(arg, ref, reply) IN
        call' = Called("split_latin_species_with_ai", arg, ref,
                       TRUE, reply, out, ResolverCalls(out))

\* a direct call of the deterministic variety segmenter: no client, no
\* request to the service
CallParseVarietiesWithRegex ==
    /\ call = NoCall
    /\ UNCHANGED pvars
    /\ \E arg \in CellInputs :
        LET out == parse_varieties_with_regex(arg) IN
        call' = Called("parse_varieties_with_regex", arg, <<>>, FALSE,
                       NoneReply, out, <<>>)

\* a direct call of the deterministic species segmenter
CallSplitLatinSpeciesFallback ==
    /\ call = NoCall
    /\ UNCHANGED pvars
    /\ \E arg \in CellInputs, ref \in RefLists :
        LET out == split_latin_species_fallback(arg, ref) IN
        call' = Called("split_latin_species_fallback", arg, ref, FALSE,
                       NoneReply, out, <<>>)

OrchInit == call = NoCall /\ PipelineInit

OrchNext ==
    \/ CallParseVarieties
    \/ CallSplitLatinSpecies
    \/ CallParseVarietiesWithOpenai
    \/ CallSplitLatinSpeciesWithAi
    \/ CallParseVarietiesWithRegex
    \/ CallSplitLatinSpeciesFallback

OrchSpec == OrchInit /\ [][OrchNext]_vars

\* ------------------------------------------------------------------------
\* Properties of single calls (OrchSpec)
\* ------------------------------------------------------------------------
Orchestrators == {"parse_varieties", "split_latin_species"}

Resolvers == {"parse_varieties_with_openai", "split_latin_species_with_ai"}

NonBlankText(c) == c.arg.t = "str" /\ TextOf(c.arg) # <<>>

\* what the resolver of the call's field returns on the normalized text
ResolverResultOf(c) ==
    IF c.fn = "parse_varieties"
    THEN parse_varieties_with_openai(StrCell(TextOf(c.arg)), c.reply)
    ELSE split_latin_species_with_ai(StrCell(TextOf(c.arg)), c.species_list,
                                     c.reply)

\* what the deterministic segmenter of the call's field returns on it
SegmenterResultOf(c) ==
    IF c.fn = "parse_varieties"
    THEN parse_varieties_with_regex(StrCell(TextOf(c.arg)))
    ELSE split_latin_species_fallback(StrCell(TextOf(c.arg)), c.species_list)

\* C1: whatever the cell value and whatever the resolver does, parse_varieties
\* and split_latin_species return a non-empty sequence and do not raise.
C1_OrchestratorNonEmptyNoRaise ==
    call.fn \in Orchestrators => ~call.raised /\ Len(call.val) >= 1

\* C1 happens: the species resolver raised inside split_latin_species (a
\* reference item that is not text) and the call still returned a split.
C1_Witness ==
    /\ call.fn = "split_latin_species"
    /\ call.client
    /\ NonBlankText(call)
    /\ ResolverResultOf(call).raised
    /\ ~call.raised
    /\ Len(call.val) >= 2

\* C2: on a non-blank text t the orchestrator returns the resolver's result
\* exactly when a resolver is configured and its result is non-empty and is
\* not [t]; otherwise it returns the deterministic segmenter's result on t.
C2_ResolverOrSegmenter ==
    (call.fn \in Orchestrators /\ NonBlankText(call)) =>
        LET t == TextOf(call.arg)
            ai == ResolverResultOf(call)
            taken == /\ call.client
                     /\ ~ai.raised
                     /\ Len(ai.val) > 0
                     /\ ai.val # <<StrCell(t)>>
        IN  IF taken
            THEN /\ call.val = ai.val
                 /\ \A i \in 1..Len(call.calls) : call.calls[i] # "segmenter"
            ELSE /\ call.val = SegmenterResultOf(call).val
                 /\ call.calls # <<>>
                 /\ call.calls[Len(call.calls)] = "segmenter"

\* C2 happens: the resolver echoed the input, the result was rejected and the
\* segmenter's split was returned.
C2_Witness ==
    /\ call.fn \in Orchestrators
    /\ call.client
    /\ NonBlankText(call)
    /\ ~ResolverResultOf(call).raised
    /\ ResolverResultOf(call).val = <<StrCell(TextOf(call.arg))>>
    /\ Len(call.val) >= 2
    /\ call.val = SegmenterResultOf(call).val

\* C3: a missing or non-text cell comes back unchanged as a singleton, a text
\* that is blank after trimming as the singleton of the empty string, and in
\* both cases neither the resolver nor the segmenter is called.
C3_PassThroughWithoutCalls ==
    call.fn \in Orchestrators =>
        /\ call.arg.t # "str" =>
              call.val = <<call.arg>> /\ call.calls = <<>>
        /\ (call.arg.t = "str" /\ strip(call.arg.v) = <<>>) =>
              call.val = <<StrCell(<<>>)>> /\ call.calls = <<>>

\* C3 happens: a blank variety cell with a resolver configured.
C3_Witness ==
    /\ call.fn = "parse_varieties"
    /\ call.client
    /\ call.arg = StrCell(T_Blank)
    /\ call.val = <<StrCell(<<>>)>>
    /\ call.calls = <<>>

\* C4: the resolvers never raise: whatever the text, the reference list and
\* the failure, they return, and on a failed service call they return the
\* single-element sequence of the input text.
C4_ResolverNeverRaises ==
    call.fn \in Resolvers =>
        /\ ~call.raised
        /\ (NonBlankText(call) /\ call.reply.kind # "text") =>
              call.val = <<StrCell(TextOf(call.arg))>>

\* C5: every fragment a resolver returns for a text is a string.
C5_ResolverReturnsStrings ==
    (call.fn \in Resolvers /\ NonBlankText(call) /\ ~call.raised) =>
        \A i \in 1..Len(call.val) : call.val[i].t = "str"

\* the positions of the log of calls at which callee was called
CallsTo(c, callee) == {i \in 1..Len(c.calls) : c.calls[i] = callee}

\* the resolver's result is not taken: it raised, is empty or is [t]
ResultRejected(c) ==
    LET ai == ResolverResultOf(c)
    IN  \/ ai.raised
        \/ Len(ai.val) = 0
        \/ ai.val = <<StrCell(TextOf(c.arg))>>

\* C14: one call of parse_varieties or split_latin_species calls the service
\* at most once; when the service call fails or the resolver's result is
\* rejected, the deterministic segmenter is called exactly once, after the
\* service call, and the service is not called again; without a configured
\* resolver the service is never called.
C14_ServiceAtMostOnce ==
    call.fn \in Orchestrators =>
        /\ Cardinality(CallsTo(call, "service")) <= 1
        /\ ~call.client =>
              CallsTo(call, "service") = {} /\ CallsTo(call, "resolver") = {}
        /\ (/\ call.client
            /\ NonBlankText(call)
            /\ (call.reply.kind = "raise" \/ ResultRejected(call))) =>
              /\ CallsTo(call, "segmenter") = {Len(call.calls)}
              /\ \A i \in CallsTo(call, "service") : i < Len(call.calls)

\* C14 happens: the service call failed inside an orchestrator, and the log
\* of calls is the resolver, its one service call, then the segmenter.
C14_Witness ==
    /\ call.fn \in Orchestrators
    /\ call.client
    /\ NonBlankText(call)
    /\ call.reply.kind = "raise"
    /\ call.calls = <<"resolver", "service", "segmenter">>

\* ------------------------------------------------------------------------
\* Properties of the deterministic segmenters (OrchSpec)
\* ------------------------------------------------------------------------
\* the fragments the numbered-list rules find after the first colon of t
AfterColonFragments(t) ==
    extract_numbered_varieties(strip(after_first(t, ":")))

\* C11: when the text of parse_varieties_with_regex contains a colon and the
\* substring after the first colon yields fewer than 2 fragments, the result
\* is the whole normalized text as a single fragment, whatever numbered
\* patterns stand before the colon.
C11_ColonLimitsNumberedRules ==
    (/\ call.fn = "parse_varieties_with_regex"
     /\ NonBlankText(call)
     /\ Contains(TextOf(call.arg), ":")
     /\ Len(AfterColonFragments(TextOf(call.arg))) < 2)
        => call.val = <<StrCell(TextOf(call.arg))>>

\* the trimmed pieces of t between its commas
CommaPieces(t) == strip_each(split_all(t, ","))

\* C12: on a text with a comma, split_latin_species_fallback returns the
\* comma pieces only when at least 2 of the trimmed pieces are non-empty, and
\* no fragment it returns is empty.
C12_CommaPiecesNonEmpty ==
    (/\ call.fn = "split_latin_species_fallback"
     /\ NonBlankText(call)
     /\ Contains(TextOf(call.arg), ","))
        => LET pieces == CommaPieces(TextOf(call.arg))
               filled == {i \in 1..Len(pieces) : pieces[i] # <<>>}
           IN  /\ call.val = StrCells(pieces) => Cardinality(filled) >= 2
               /\ \A i \in 1..Len(call.val) : call.val[i].v # <<>>

\* the matches of the binomial pattern in t, in order
BinomialMatches(t) == findall_species(t, 1)

\* the matches that are items of the reference list ref, in order
MatchesInReference(t, ref) ==
    SelectSeq(BinomialMatches(t),
              LAMBDA m : \E k \in 1..Len(ref) : ref[k] = StrCell(m))

\* C13: on a text without a comma in which the binomial pattern matches 2 or
\* more times, split_latin_species_fallback returns the matches that are in
\* the reference list, in order, when there are 2 or more of them, and all
\* the matches otherwise (so also when none is in the list or the list is
\* empty).
C13_BinomialMatchesValidated ==
    (/\ call.fn = "split_latin_species_fallback"
     /\ NonBlankText(call)
     /\ ~Contains(TextOf(call.arg), ",")
     /\ Len(BinomialMatches(TextOf(call.arg))) >= 2)
        => LET t == TextOf(call.arg)
               known == MatchesInReference(t, call.species_list)
           IN  /\ ~call.raised
               /\ Len(known) >= 2 => call.val = StrCells(known)
               /\ Len(known) < 2 => call.val = StrCells(BinomialMatches(t))

\* C13 happens: three matches of which two are in the reference list, and
\* the two are returned.
C13_Witness ==
    /\ call.fn = "split_latin_species_fallback"
    /\ ~Contains(TextOf(call.arg), ",")
    /\ Len(BinomialMatches(TextOf(call.arg))) = 3
    /\ Len(MatchesInReference(TextOf(call.arg), call.species_list)) = 2
    /\ call.val = <<StrCell(T_Pisum), StrCell(T_Phaseolus)>>

\* ------------------------------------------------------------------------
\* Properties of a run (Spec)
\* ------------------------------------------------------------------------
Emitted == 1..Len(processed_rows)

\* the Series an entry of processed_rows refers to
EmittedRow(j) == heap[processed_rows[j].obj]

\* the entries emitted for source row i
RowsOf(i) == {j \in Emitted : processed_rows[j].src = i}

\* C6: after a successful run the number of output rows is the sum, over the
\* input rows, of (species-fragment count x variety-fragment count) of the
\* row: every input row yields exactly as many rows as the product of the
\* fragment counts of its species resolution and of its variety resolution.
C6_RowCountIsProduct ==
    (pc = "exited" /\ success) =>
        /\ Len(output.rows) = Len(processed_rows)
        /\ \A i \in 1..Len(df) :
              /\ RowsOf(i) # {}
              /\ \A j \in RowsOf(i) :
                    Cardinality(RowsOf(i)) =
                        processed_rows[j].sn * processed_rows[j].vn

\* C7: an emitted row keeps the source row's cell in a column whose
\* resolution yielded one fragment, and holds its own fragment in a column whose
\* resolution yielded two or more.
C7_SingleKeepsOriginal ==
    \A j \in Emitted :
        LET e == processed_rows[j] IN
        /\ latin_species_column \in columns =>
              EmittedRow(j)[latin_species_column] =
                  IF e.sn = 1 THEN df[e.src][latin_species_column]
                  ELSE e.sfrag
        /\ variety_column \in columns =>
              EmittedRow(j)[variety_column] =
                  IF e.vn = 1 THEN df[e.src][variety_column] ELSE e.vfrag

\* C7 happens: one emitted row kept a species cell that differs from the single
\* fragment of its resolution, and has its variety cell overwritten.
C7_Witness ==
    \E j \in Emitted :
        LET e == processed_rows[j] IN
        /\ {latin_species_column, variety_column} \subseteq columns
        /\ e.sn = 1
        /\ e.sfrag # df[e.src][latin_species_column]
        /\ EmittedRow(j)[latin_species_column] =
               df[e.src][latin_species_column]
        /\ e.vn >= 2
        /\ EmittedRow(j)[variety_column] = e.vfrag
        /\ e.vfrag # df[e.src][variety_column]

\* every emitted row has the source row's value in every other column
OtherColumnsKept ==
    \A j \in Emitted :
        \A c \in columns \ {latin_species_column, variety_column} :
            EmittedRow(j)[c] = df[processed_rows[j].src][c]

\* no step changes a Series that already exists
NoSeriesChanged ==
    \A id \in 1..Len(heap) : id <= Len(heap') /\ heap'[id] = heap[id]

\* C8: every emitted row has the source row's value in every column other than
\* the species and variety columns, and writing a fragment into an emitted row
\* changes neither the source row nor any other emitted row.
C8_CopiesAreIndependent == []OtherColumnsKept /\ [][NoSeriesChanged]_vars

\* C8 happens: a source row was expanded into several copies with fragments
\* written into them, and the source Series still equals the input row.
C8_Witness ==
    /\ pc = "expand"
    /\ Cardinality(RowsOf(index)) >= 2
    /\ \E j \in RowsOf(index) :
          /\ processed_rows[j].obj # row
          /\ EmittedRow(j) # heap[row]
    /\ heap[row] = df[index]

\* origin of entry j is before origin of entry k: source row, then species
\* fragment, then variety fragment
OriginBefore(j, k) ==
    LET a == processed_rows[j]
        b == processed_rows[k]
    IN  \/ a.src < b.src
        \/ a.src = b.src /\ a.si < b.si
        \/ a.src = b.src /\ a.si = b.si /\ a.vi < b.vi

\* C9: the rows are grouped by source row in input order, within a source row
\* in species-fragment order and within a species fragment in variety-fragment
\* order, and the output file holds them in that order.
C9_OutputOrder ==
    /\ \A j, k \in Emitted : j < k => OriginBefore(j, k)
    /\ (output.written /\ success) =>
          /\ Len(output.rows) = Len(processed_rows)
          /\ \A j \in Emitted : output.rows[j] = EmittedRow(j)

\* C9 happens: a written output with two source rows, the first of them
\* expanded over two species fragments and several variety fragments.
C9_Witness ==
    /\ output.written
    /\ success
    /\ \E j, k, m \in Emitted :
          /\ processed_rows[j].src = 1
          /\ processed_rows[j].si = 2
          /\ processed_rows[j].vi = 2
          /\ processed_rows[k].src = 1
          /\ processed_rows[k].si = 1
          /\ processed_rows[m].src = 2
          /\ k < j
          /\ j < m

ProcessingFailures == {"missing", "error", "nocolumns", "row"}

\* C10: the run exits with status 0 only when the output was written, and a run
\* that failed on the input file, on the columns or on a row exits with
\* status 1 and writes no output.
C10_ExitStatus ==
    /\ exit_status = 0 => (success /\ output.written)
    /\ failure \in ProcessingFailures => ~output.written
    /\ (pc = "exited" /\ failure \in ProcessingFailures) => exit_status = 1

\* C10 happens: a run failed on its second row after the first was expanded,
\* and exited with status 1 without output.
C10_Witness ==
    /\ pc = "exited"
    /\ failure = "row"
    /\ index = 2
    /\ Len(processed_rows) >= 2
    /\ exit_status = 1
    /\ ~output.written

====
